---------------------------- MODULE Spec2Model ----------------------------
(***************************************************************************)
(* CNC Press Brake Simulator: the job/sheet/press-brake engine and the     *)
(* AppController handlers that drive it (src/cnc_press_brake_simulator.go). *)
(*                                                                         *)
(* Numbers.  The program computes in float64; the model keeps every        *)
(* quantity on an integer grid fine enough to tell the program's constants *)
(* apart:                                                                  *)
(*   sheet dimensions and bend positions : 1 unit = 0.01 mm                *)
(*   bend radius                         : 1 unit = 0.0000005 mm (5e-7)    *)
(*   bend angle                          : 1 unit = 0.1 degree             *)
(*   MinBendRadiusFactor                 : 1 unit = 0.1                    *)
(*   GetMinBendRadius result             : 1 unit = 0.001 mm               *)
(*                                         (= 0.01 mm thickness * 0.1)     *)
(* A radius r is below a minimum m (r < m in the program) iff              *)
(* r \div RadiusUnitsPerMilli < m, see RadiusBelow.                        *)
(***************************************************************************)
EXTENDS Integers, Sequences, FiniteSets

(***************************************************************************)
(* Program constants (const block, lines 35-44).                           *)
(***************************************************************************)
minSheetDimension == 10
maxSheetDimension == 1000000
minBendRadius == 0
maxBendRadius == 1000000000
minBendAngle == 10
maxBendAngle == 1790
\* the literal 1e-6 of handleAddBendStep, in radius units
RadiusEpsilon == 2
\* the fallback factor 0.5 of GetMinBendRadius, in factor units
FallbackFactor == 5
\* radius units per unit of GetMinBendRadius: 0.001 mm is a thousand times 1e-6 mm
RadiusUnitsPerMilli == RadiusEpsilon * 1000
\* NewAppController's initial sheet: 300.0 x 100.0 x 2.0
InitialLength == 30000
InitialWidth == 10000
InitialThickness == 200

(***************************************************************************)
(* Bounds of the model.                                                    *)
(***************************************************************************)
\* longest step list a job is driven to
MaxSteps == 2
\* most successful ProcessJob calls the domain driver makes
MaxParts == 2

Nil == "nil"

BendDirectionUp == "Up"
BendDirectionDown == "Down"

\* error values, one per fmt.Errorf of the engine
ErrNoCurrentJob == "no current job selected"
ErrNoSheet == "current job has no sheet defined"
ErrPosition == "bend position is outside sheet length"
ErrRadius == "bend radius is outside allowed range"
ErrAngle == "bend angle is outside allowed range"
ErrNoJobToClear == "no current job to clear steps from"
ErrNilJobOrSheet == "job or sheet is nil"
ErrToolingNotSet == "tooling not set"
ErrDimensions == "sheet dimensions must be positive"
ErrMaterial == "material must be specified"
ErrSheetID == "sheet ID cannot be empty"

(***************************************************************************)
(* Material catalog.                                                       *)
(***************************************************************************)
Material(name, factor) == [Name |-> name, MinBendRadiusFactor |-> factor]

defaultMaterials ==
  [n \in {"Steel", "Aluminum", "Stainless Steel", "Copper", "Mild Steel"} |->
     CASE n = "Steel" -> Material(n, 15)
       [] n = "Aluminum" -> Material(n, 10)
       [] n = "Stainless Steel" -> Material(n, 20)
       [] n = "Copper" -> Material(n, 8)
       [] n = "Mild Steel" -> Material(n, 12)]

\* GetMaterialNames: the preferred order (all five are in the catalog)
materialNames == <<"Steel", "Aluminum", "Stainless Steel", "Copper", "Mild Steel">>

(***************************************************************************)
(* Sheet model.                                                            *)
(***************************************************************************)
\* a nil *SheetMetal; no constructed sheet carries this ID
NilSheet ==
  [ID |-> "<nil>", OriginalLength |-> 0, Thickness |-> 0, Width |-> 0,
   Material |-> Material("", 0), CurrentBends |-> <<>>]

NewSheetMetal(id, length, width, thickness, material) ==
  IF length <= 0 \/ width <= 0 \/ thickness <= 0
  THEN [err |-> ErrDimensions, sheet |-> NilSheet]
  ELSE IF material.Name = ""
  THEN [err |-> ErrMaterial, sheet |-> NilSheet]
  ELSE [err |-> Nil,
        sheet |-> [ID |-> id, OriginalLength |-> length, Thickness |-> thickness,
                   Width |-> width, Material |-> material, CurrentBends |-> <<>>]]

\* NewSheetMetal of the refactored build: the ID is checked first
NewSheetMetalRefactored(id, length, width, thickness, material) ==
  IF id = "" THEN [err |-> ErrSheetID, sheet |-> NilSheet]
  ELSE NewSheetMetal(id, length, width, thickness, material)

\* a reset that leaves the recorded bends in place
ResetForm_KeepsBends(s) == s

\* lines 102-105
ResetForm(s) == [s EXCEPT !.CurrentBends = <<>>]

\* a minimum radius with no fallback for a factor that is not positive
GetMinBendRadius_NoFallback(s) ==
  IF s.Thickness <= 0 THEN 0
  ELSE s.Thickness * s.Material.MinBendRadiusFactor

\* lines 109-116
GetMinBendRadius(s) ==
  IF s.Thickness <= 0 THEN 0
  ELSE IF s.Material.MinBendRadiusFactor <= 0 THEN s.Thickness * FallbackFactor
  ELSE s.Thickness * s.Material.MinBendRadiusFactor

\* radius < min, radius in radius units and min as GetMinBendRadius returns it
RadiusBelow(radius, min) == (radius \div RadiusUnitsPerMilli) < min

(***************************************************************************)
(* Bend steps and jobs.                                                    *)
(***************************************************************************)
BendStep(seq, pos, angle, radius, dir) ==
  [SequenceOrder |-> seq, Position |-> pos, TargetAngle |-> angle,
   Radius |-> radius, Direction |-> dir]

\* a nil *BendStep
NilStep == BendStep(0, 0, 0, 0, "")

ErrJobName == "job name cannot be empty"
ErrJobSheet == "job must have a sheet defined"

\* the value NewJob returns beside an error
NilJob == [Name |-> "<nil>", Sheet |-> NilSheet, Steps |-> <<>>]

NewJob(name, sheet) ==
  IF name = "" THEN [err |-> ErrJobName, job |-> NilJob]
  ELSE IF sheet = NilSheet THEN [err |-> ErrJobSheet, job |-> NilJob]
  ELSE [err |-> Nil, job |-> [Name |-> name, Sheet |-> sheet, Steps |-> <<>>]]

(***************************************************************************)
(* State.                                                                  *)
(***************************************************************************)
\* Job objects live in a heap indexed by JobIds; a *Job is a JobId or Nil.
\* J1 is the job NewAppController builds; J2 is a Job value whose Sheet is
\* nil, the case AddBendStepToCurrentJob and ProcessJob guard against.
JobIds == {"J1", "J2"}

VARIABLES
  build,                \* which program runs: the monolithic file or the refactored project
  jobs,                 \* JobId -> Job (Name, Sheet, Steps)
  jcCurrentJob,         \* JobController.currentJob
  pressBrake,           \* PressBrake: currentPunch, currentDie, totalPartsBentSession
  selectedMaterialIdx,  \* AppController.selectedMaterialIdx (0-based)
  selectedDirectionIdx, \* AppController.selectedDirectionIdx (0-based)
  dialog,               \* AppController: showDialog, dialogConfirmAction, dialogCancelAction
  partsBentText,        \* the number shown by AppController.partsBentText
  execs,                \* the goroutines started by handleExecuteBendProcess
  ret,                  \* what the last engine call made by the driver returned
  retired,              \* per job, the SequenceOrder values removed by a clear
  punchNames,           \* AppController.punchNames
  dieNames,             \* AppController.dieNames
  selectedPunchIdx,     \* AppController.selectedPunchIdx (0-based)
  selectedDieIdx,       \* AppController.selectedDieIdx (0-based)
  statusText,           \* AppController.statusText
  statusCall,           \* the updateStatus call the UI thread is in: <<msg, isError>>
  statusTimer,          \* AppController.statusTimer
  timerCallbacks,       \* the timer callbacks that have started and not returned
  uiUpdate,             \* the signals held by the channel AppController.uiUpdate
  redrawPc              \* the goroutine of loop(): at its range or at Invalidate

\* the tool selectors
selectorVars == <<punchNames, dieNames, selectedPunchIdx, selectedDieIdx>>

\* the status line and the redraw channel
statusVars == <<statusText, statusCall, statusTimer, timerCallbacks, uiUpdate, redrawPc>>

vars == <<build, jobs, jcCurrentJob, pressBrake, selectedMaterialIdx, selectedDirectionIdx,
          dialog, partsBentText, execs, ret, retired, selectorVars, statusVars>>

uiVars == <<selectedMaterialIdx, selectedDirectionIdx, dialog, partsBentText, execs,
            selectorVars, statusVars>>

(***************************************************************************)
(* Job controller (lines 253-301).                                         *)
(***************************************************************************)
\* the boundary check with the upper boundary let in
PositionOutOfBounds_UpperIncluded(pos, sheet) == pos <= 0 \/ pos > sheet.OriginalLength

PositionOutOfBounds(pos, sheet) == pos <= 0 \/ pos >= sheet.OriginalLength

RadiusOutOfRange(radius) == radius < minBendRadius \/ radius > maxBendRadius

AngleOutOfRange(angle) == angle < minBendAngle \/ angle > maxBendAngle

\* numbering from 0
NextSequenceOrder_ZeroBased(steps) == Len(steps)

\* numbering that leaves a gap
NextSequenceOrder_Skips(steps) == Len(steps) + 2

NextSequenceOrder(steps) == Len(steps) + 1

\* AddBendStepToCurrentJob on heap js with currentJob cur: the returned error and
\* step, and the heap afterwards.
AddBendStepToCurrentJob(js, cur, pos, angle, radius, dir) ==
  IF cur = Nil THEN [err |-> ErrNoCurrentJob, step |-> NilStep, jobs |-> js]
  ELSE IF js[cur].Sheet = NilSheet THEN [err |-> ErrNoSheet, step |-> NilStep, jobs |-> js]
  ELSE IF PositionOutOfBounds(pos, js[cur].Sheet)
  THEN [err |-> ErrPosition, step |-> NilStep, jobs |-> js]
  ELSE IF RadiusOutOfRange(radius)
  THEN [err |-> ErrRadius, step |-> NilStep, jobs |-> js]
  ELSE IF AngleOutOfRange(angle)
  THEN [err |-> ErrAngle, step |-> NilStep, jobs |-> js]
  ELSE LET step == BendStep(NextSequenceOrder(js[cur].Steps), pos, angle, radius, dir)
       IN [err |-> Nil, step |-> step,
           jobs |-> [js EXCEPT ![cur].Steps = Append(@, step)]]

\* internal/job/job.go as the setup script writes it (lines 1451-1471): only the
\* position is checked.
AddBendStepToCurrentJobRefactored(js, cur, pos, angle, radius, dir) ==
  IF cur = Nil THEN [err |-> ErrNoCurrentJob, step |-> NilStep, jobs |-> js]
  ELSE IF js[cur].Sheet = NilSheet THEN [err |-> ErrNoSheet, step |-> NilStep, jobs |-> js]
  ELSE IF PositionOutOfBounds(pos, js[cur].Sheet)
  THEN [err |-> ErrPosition, step |-> NilStep, jobs |-> js]
  ELSE LET step == BendStep(NextSequenceOrder(js[cur].Steps), pos, angle, radius, dir)
       IN [err |-> Nil, step |-> step,
           jobs |-> [js EXCEPT ![cur].Steps = Append(@, step)]]

Monolith == "monolith"
Refactored == "refactored"

\* NewSheetMetal as build b defines it
NewSheetMetalOf(b, id, length, width, thickness, material) ==
  IF b = Refactored THEN NewSheetMetalRefactored(id, length, width, thickness, material)
  ELSE NewSheetMetal(id, length, width, thickness, material)

\* an add that also records the bend on the sheet
AddBendStepOf_BendsAtOnce(b, js, cur, pos, angle, radius, dir) ==
  LET r == IF b = Refactored
           THEN AddBendStepToCurrentJobRefactored(js, cur, pos, angle, radius, dir)
           ELSE AddBendStepToCurrentJob(js, cur, pos, angle, radius, dir)
  IN IF r.err # Nil THEN r
     ELSE [r EXCEPT !.jobs[cur].Sheet.CurrentBends = Append(@, r.step)]

\* the AddBendStepToCurrentJob of build b
AddBendStepOf(b, js, cur, pos, angle, radius, dir) ==
  IF b = Refactored
  THEN AddBendStepToCurrentJobRefactored(js, cur, pos, angle, radius, dir)
  ELSE AddBendStepToCurrentJob(js, cur, pos, angle, radius, dir)

\* a clear that drops only the last step
ClearedSteps_DropLast(steps) ==
  IF steps = <<>> THEN <<>> ELSE SubSeq(steps, 1, Len(steps) - 1)

\* the steps ClearBendStepsFromCurrentJob leaves in the job
ClearedSteps(steps) == <<>>

\* a clear that reports success when there is no current job
ClearBendStepsFromCurrentJob_SilentOnNoJob(js, cur) ==
  IF cur = Nil THEN [err |-> Nil, jobs |-> js]
  ELSE [err |-> Nil,
        jobs |-> [js EXCEPT ![cur].Steps = ClearedSteps(@),
                            ![cur].Sheet = IF @ # NilSheet THEN ResetForm(@) ELSE @]]

\* lines 293-301
ClearBendStepsFromCurrentJob(js, cur) ==
  IF cur = Nil THEN [err |-> ErrNoJobToClear, jobs |-> js]
  ELSE [err |-> Nil,
        jobs |-> [js EXCEPT ![cur].Steps = ClearedSteps(@),
                            ![cur].Sheet = IF @ # NilSheet THEN ResetForm(@) ELSE @]]

(***************************************************************************)
(* Press brake (lines 303-352).                                            *)
(***************************************************************************)
\* a run that forgets to reset the sheet
StartOfRun_NoReset(sheet) == sheet

\* line 334: the sheet ProcessJob starts its replay from
StartOfRun(sheet) == ResetForm(sheet)

\* line 345: record one bend on the sheet
RecordBend(sheet, step) == [sheet EXCEPT !.CurrentBends = Append(@, step)]

\* lines 336-346: the loop over j.Steps, in stored order
RECURSIVE ReplaySteps(_, _)
ReplaySteps(sheet, steps) ==
  IF steps = <<>> THEN sheet
  ELSE ReplaySteps(RecordBend(sheet, Head(steps)), Tail(steps))

\* a counter that counts a part twice
CountPart_Twice(pb) ==
  [pb EXCEPT !.totalPartsBentSession = @ + 2]

\* line 348, run alone: totalPartsBentSession++
CountPart(pb) == [pb EXCEPT !.totalPartsBentSession = @ + 1]

\* a ProcessJob that counts the part before it checks its preconditions
ProcessJob_CountsBeforeChecks(js, pb, j) ==
  IF j = Nil \/ js[j].Sheet = NilSheet
  THEN [err |-> ErrNilJobOrSheet, sheet |-> NilSheet, jobs |-> js, pb |-> CountPart(pb)]
  ELSE IF pb.currentPunch = Nil \/ pb.currentDie = Nil
  THEN [err |-> ErrToolingNotSet, sheet |-> NilSheet, jobs |-> js, pb |-> CountPart(pb)]
  ELSE LET bent == ReplaySteps(StartOfRun(js[j].Sheet), js[j].Steps)
       IN [err |-> Nil, sheet |-> bent,
           jobs |-> [js EXCEPT ![j].Sheet = bent], pb |-> CountPart(pb)]

\* ProcessJob run to completion with nothing interleaved: the returned error
\* and sheet, and the heap and press brake afterwards.
ProcessJob(js, pb, j) ==
  IF j = Nil \/ js[j].Sheet = NilSheet
  THEN [err |-> ErrNilJobOrSheet, sheet |-> NilSheet, jobs |-> js, pb |-> pb]
  ELSE IF pb.currentPunch = Nil \/ pb.currentDie = Nil
  THEN [err |-> ErrToolingNotSet, sheet |-> NilSheet, jobs |-> js, pb |-> pb]
  ELSE LET bent == ReplaySteps(StartOfRun(js[j].Sheet), js[j].Steps)
       IN [err |-> Nil, sheet |-> bent,
           jobs |-> [js EXCEPT ![j].Sheet = bent], pb |-> CountPart(pb)]

(***************************************************************************)
(* AppController: sheet property update (lines 975-993; the refactored      *)
(* project's handler, lines 2161-2186, rebuilds the sheet with             *)
(* NewSheetMetal).                                                         *)
(***************************************************************************)
\* an AppController that keeps a Job of its own, not the one it gave to the
\* JobController
acCurrentJob_OwnJob == "J2"

\* AppController.currentJob: set once by NewAppController (line 557)
acCurrentJob == "J1"

\* a range check that refuses the smallest dimension
DimensionOutOfRange_LowerOpen(d) == d <= minSheetDimension \/ d > maxSheetDimension

\* a range check with no lower limit
DimensionOutOfRange_UpperOnly(d) == d > maxSheetDimension

\* line 981
DimensionOutOfRange(d) == d < minSheetDimension \/ d > maxSheetDimension

\* handleSheetUpdate of build b on heap js: whether it updated, and the heap after
HandleSheetUpdate(b, js, length, thickness, width, matIdx) ==
  IF acCurrentJob = Nil \/ js[acCurrentJob].Sheet = NilSheet
  THEN [ok |-> FALSE, jobs |-> js]
  ELSE IF DimensionOutOfRange(length) \/ DimensionOutOfRange(thickness)
          \/ DimensionOutOfRange(width)
  THEN [ok |-> FALSE, jobs |-> js]
  ELSE IF ~(matIdx >= 0 /\ matIdx < Len(materialNames))
  THEN [ok |-> FALSE, jobs |-> js]
  ELSE LET mat == defaultMaterials[materialNames[matIdx + 1]]
           old == js[acCurrentJob].Sheet
           made == NewSheetMetalRefactored(old.ID, length, width, thickness, mat)
       IN IF b = Refactored
          THEN IF made.err # Nil THEN [ok |-> FALSE, jobs |-> js]
               ELSE [ok |-> TRUE,
                     jobs |-> [js EXCEPT ![acCurrentJob].Sheet = ResetForm(made.sheet)]]
          ELSE [ok |-> TRUE,
                jobs |-> [js EXCEPT ![acCurrentJob].Sheet =
                            ResetForm([old EXCEPT !.OriginalLength = length,
                                                  !.Thickness = thickness,
                                                  !.Width = width,
                                                  !.Material = mat])]]

(***************************************************************************)
(* Initial state: NewAppController (lines 508-602).                        *)
(***************************************************************************)
DefaultPunch == "Default Punch"
DefaultDie == "Default Die"

InitialSheet ==
  NewSheetMetal("DefaultSheet-001", InitialLength, InitialWidth, InitialThickness,
                defaultMaterials["Steel"]).sheet

\* A dialog callback is a closure: what it will do (kind) and the values it
\* captured.  NilAction is a nil func().
DialogAction(kind, pos, angle, radius, dir) ==
  [kind |-> kind, pos |-> pos, angle |-> angle, radius |-> radius, dir |-> dir]

NilAction == DialogAction("nil", 0, 0, 0, "")

NoDialog == [showDialog |-> FALSE, confirmAction |-> NilAction, cancelAction |-> NilAction]

NoCall == [op |-> "none", err |-> Nil, step |-> NilStep]

\* a goroutine of handleExecuteBendProcess: where it stands (pc), the slice the
\* range loop iterates (steps), the loop index (i), and the values it has read
\* but not yet written back (bends, count)
Exec(pc, steps, i, bends, count) ==
  [pc |-> pc, steps |-> steps, i |-> i, bends |-> bends, count |-> count]

IdleExec == Exec("idle", <<>>, 0, <<>>, 0)

\* most executions the execute button is driven to start
MaxRuns == 3

(***************************************************************************)
(* The tool selectors (lines 543-544, 580-586).  GetPunchNames and         *)
(* GetDieNames range over a map, so the order of the names is any order.   *)
(***************************************************************************)
toolPunches == {"P88.10.R06", "P30.15.R1", DefaultPunch}
toolDies == {"D12.90.R2", "D20.60.R3", DefaultDie}

\* the orders a range over a map with keys S can produce
MapOrders(S) ==
  {s \in [1..Cardinality(S) -> S] : \A x \in S : \E i \in DOMAIN s : s[i] = x}

\* lines 207-211 and 212-216, for the maps of NewToolingManager
GetDefaultPunch == IF DefaultPunch \in toolPunches THEN DefaultPunch ELSE Nil
GetDefaultDie == IF DefaultDie \in toolDies THEN DefaultDie ELSE Nil

\* lines 580-582 and 584-586: the 0-based index of the default tool's name, 0
\* when it is not listed, -1 for an empty list
InitialSelection(names, default) ==
  IF Len(names) = 0 THEN -1
  ELSE IF default # Nil /\ \E i \in DOMAIN names : names[i] = default
  THEN (CHOOSE i \in DOMAIN names :
          /\ names[i] = default
          /\ \A k \in DOMAIN names : names[k] = default => i <= k) - 1
  ELSE 0

\* the names in the order NewToolingManager lists them (lines 180-187), one of
\* the orders
listedPunchNames == <<"P88.10.R06", "P30.15.R1", DefaultPunch>>
listedDieNames == <<"D12.90.R2", "D20.60.R3", DefaultDie>>

InitSelectors(pn, dn) ==
  /\ punchNames = pn
  /\ dieNames = dn
  /\ selectedPunchIdx = InitialSelection(pn, GetDefaultPunch)
  /\ selectedDieIdx = InitialSelection(dn, GetDefaultDie)

(***************************************************************************)
(* The status line (lines 761-781) and the redraw channel (lines 566,      *)
(* 612-617, 783-785).  A status text is the sequence of its words.         *)
(***************************************************************************)
StatusReady == <<"Status:", "Ready">>
MsgInitialized == <<"System", "Initialized.", "Ready.">>
MsgNothingToClear == <<"No", "bend", "steps", "to", "clear.">>
MsgNothingToExecute == <<"No", "bend", "steps", "to", "execute.">>
MsgInvalidParameters == <<"Invalid", "bend", "parameters.", "Ensure", "numbers.">>

\* strings.HasSuffix
HasSuffix(s, suffix) ==
  /\ Len(suffix) <= Len(s)
  /\ SubSeq(s, Len(s) - Len(suffix) + 1, Len(s)) = suffix

\* make(chan struct{}, 1)
uiUpdateCapacity == 1

\* a send that queues a second signal
signalUIUpdate_BufferOfTwo(ch) == IF ch < uiUpdateCapacity + 1 THEN ch + 1 ELSE ch

\* line 784: select { case ac.uiUpdate <- struct{}{}: default: } on a channel
\* holding ch signals
signalUIUpdate(ch) == IF ch < uiUpdateCapacity THEN ch + 1 ELSE ch

\* a *time.Timer made by time.AfterFunc for the status msg
Timer(msg, armed) == [msg |-> msg, armed |-> armed]

\* the updateStatus call the UI thread is in, between its write of the text
\* (line 763) and its taking of statusClearLock (line 767)
StatusCall(msg, isError) == [msg |-> msg, isError |-> isError, pending |-> TRUE]

NoStatusCall == [msg |-> <<>>, isError |-> FALSE, pending |-> FALSE]

\* the callback of line 770, in flight: waiting for statusClearLock ("lock") or
\* holding it with the test of line 773 passed ("clear")
Callback(msg, pc) == [msg |-> msg, pc |-> pc]

\* statusClearLock is held by a callback between its test and its unlock
LockHeld == \E c \in timerCallbacks : c.pc = "clear"

\* the state NewAppController leaves (line 599): the first status shown, its
\* timer running, one redraw signal pending
InitStatus ==
  /\ statusText = MsgInitialized
  /\ statusCall = NoStatusCall
  /\ statusTimer = Timer(MsgInitialized, TRUE)
  /\ timerCallbacks = {}
  /\ uiUpdate = signalUIUpdate(0)
  /\ redrawPc = "range"

Init ==
  /\ build \in {Monolith, Refactored}
  /\ jobs = [j \in JobIds |->
               IF j = "J1" THEN NewJob("DefaultJob-001", InitialSheet).job
               ELSE [Name |-> "Job-NoSheet", Sheet |-> NilSheet, Steps |-> <<>>]]
  /\ jcCurrentJob = "J1"
  /\ pressBrake = [currentPunch |-> DefaultPunch, currentDie |-> DefaultDie,
                   totalPartsBentSession |-> 0]
  /\ selectedMaterialIdx = 0
  /\ selectedDirectionIdx = 0
  /\ dialog = NoDialog
  /\ partsBentText = 0
  /\ execs = [g \in 1..MaxRuns |-> IdleExec]
  /\ ret = NoCall
  /\ retired = [j \in JobIds |-> {}]
  /\ InitSelectors(listedPunchNames, listedDieNames)
  /\ InitStatus

(***************************************************************************)
(* The engine driven call by call (each call runs to completion).          *)
(***************************************************************************)
\* the proposals the driver makes: one in-range proposal and its variations
CallProposals ==
  LET base == [pos |-> 5000, angle |-> 900, radius |-> 7000000, dir |-> BendDirectionUp]
  IN {base, [base EXCEPT !.dir = BendDirectionDown]}
     \cup {[base EXCEPT !.pos = p] : p \in {0, 2000, 30000}}
     \cup {[base EXCEPT !.angle = a] : a \in {9, 1791}}
     \cup {[base EXCEPT !.radius = r] : r \in {-1, 1000000001}}

\* the sheet dimensions the driver asks for: <<length, thickness, width>>
CallSheets == {<<4000, 200, 10000>>, <<30000, 200, 10000>>, <<30000, 5, 10000>>}

\* a selection that empties the plan of the job selected before
CallSetCurrentJob_DropsOldPlan(j) ==
  /\ jcCurrentJob' = j
  /\ jobs' = IF jcCurrentJob = Nil THEN jobs
             ELSE [jobs EXCEPT ![jcCurrentJob].Steps = <<>>]
  /\ ret' = [op |-> "SetCurrentJob", err |-> Nil, step |-> NilStep]
  /\ UNCHANGED <<build, pressBrake, retired, uiVars>>

\* line 260
CallSetCurrentJob(j) ==
  /\ jcCurrentJob' = j
  /\ ret' = [op |-> "SetCurrentJob", err |-> Nil, step |-> NilStep]
  /\ UNCHANGED <<build, jobs, pressBrake, retired, uiVars>>

CallAddBendStep(p) ==
  /\ jcCurrentJob # Nil => Len(jobs[jcCurrentJob].Steps) < MaxSteps
  /\ LET r == AddBendStepOf(build, jobs, jcCurrentJob, p.pos, p.angle, p.radius, p.dir)
     IN /\ jobs' = r.jobs
        /\ ret' = [op |-> "AddBendStep", err |-> r.err, step |-> r.step]
  /\ UNCHANGED <<build, jcCurrentJob, pressBrake, retired, uiVars>>

CallClearBendSteps ==
  /\ LET r == ClearBendStepsFromCurrentJob(jobs, jcCurrentJob)
     IN /\ jobs' = r.jobs
        /\ ret' = [op |-> "ClearBendSteps", err |-> r.err, step |-> NilStep]
        /\ retired' = IF jcCurrentJob = Nil THEN retired
                      ELSE [retired EXCEPT ![jcCurrentJob] =
                              @ \cup {jobs[jcCurrentJob].Steps[i].SequenceOrder :
                                        i \in DOMAIN jobs[jcCurrentJob].Steps}]
  /\ UNCHANGED <<build, jcCurrentJob, pressBrake, uiVars>>

CallProcessJob(j) ==
  /\ pressBrake.totalPartsBentSession < MaxParts
  /\ LET r == ProcessJob(jobs, pressBrake, j)
     IN /\ jobs' = r.jobs
        /\ pressBrake' = r.pb
        /\ ret' = [op |-> "ProcessJob", err |-> r.err, step |-> NilStep]
  /\ UNCHANGED <<build, jcCurrentJob, retired, uiVars>>

CallSheetUpdate(d) ==
  /\ LET r == HandleSheetUpdate(build, jobs, d[1], d[2], d[3], selectedMaterialIdx)
     IN /\ jobs' = r.jobs
        /\ ret' = [op |-> "SheetUpdate", err |-> IF r.ok THEN Nil ELSE "refused",
                   step |-> NilStep]
  /\ UNCHANGED <<build, jcCurrentJob, pressBrake, retired, uiVars>>

NextDomain ==
  \/ \E p \in CallProposals : CallAddBendStep(p)
  \/ CallClearBendSteps
  \/ \E j \in JobIds \cup {Nil} : CallProcessJob(j)
  \/ \E d \in CallSheets : CallSheetUpdate(d)

SpecDomain == Init /\ [][NextDomain]_vars

(***************************************************************************)
(* The UI thread: one action per click that processEvents (lines 928-973)   *)
(* and loop (lines 633-641) handle.                                        *)
(***************************************************************************)
bendDirections == <<BendDirectionUp, BendDirectionDown>>

\* lines 1070-1073
showConfirmDialog(onConfirm, onCancel) ==
  [showDialog |-> TRUE, confirmAction |-> onConfirm, cancelAction |-> onCancel]

\* lines 1074-1076: the dialog is hidden and both callbacks are set to nil
dismissDialog(d) ==
  [d EXCEPT !.showDialog = FALSE, !.confirmAction = NilAction, !.cancelAction = NilAction]

\* lines 1002-1004: the bound the handler's own check refuses a proposal for,
\* Nil when it lets the proposal through
HandlerRefusal(pos, angle, radius, sheet) ==
  IF PositionOutOfBounds(pos, sheet) THEN ErrPosition
  ELSE IF RadiusOutOfRange(radius) THEN ErrRadius
  ELSE IF AngleOutOfRange(angle) THEN ErrAngle
  ELSE Nil

\* a handler that never raises the radius warning
NeedsRadiusWarning_Never(radius, minSheetRadius) == FALSE

\* a warning that is also raised for a radius equal to the minimum
NeedsRadiusWarning_AtMinimumToo(radius, minSheetRadius) ==
  radius > RadiusEpsilon /\ (radius \div RadiusUnitsPerMilli) <= minSheetRadius

\* line 1012
NeedsRadiusWarning(radius, minSheetRadius) ==
  radius > RadiusEpsilon /\ RadiusBelow(radius, minSheetRadius)

\* the closure addStepAction (lines 1006-1011), run with its captured values
RunAddStepAction(a) ==
  /\ jobs' = AddBendStepOf(build, jobs, jcCurrentJob, a.pos, a.angle, a.radius, a.dir).jobs
  /\ UNCHANGED retired

\* the confirm closure of handleClearBendSequence (lines 1022-1026)
RunClearAction ==
  /\ jobs' = ClearBendStepsFromCurrentJob(jobs, jcCurrentJob).jobs
  /\ retired' = IF jcCurrentJob = Nil THEN retired
                ELSE [retired EXCEPT ![jcCurrentJob] =
                        @ \cup {jobs[jcCurrentJob].Steps[i].SequenceOrder :
                                  i \in DOMAIN jobs[jcCurrentJob].Steps}]

\* calling a dialog callback
RunDialogAction(a) ==
  CASE a.kind = "addStep" -> RunAddStepAction(a)
    [] a.kind = "clearSteps" -> RunClearAction
    [] OTHER -> UNCHANGED <<jobs, retired>>

\* lines 932-941
MaterialSelectClick ==
  /\ Len(materialNames) > 0
  /\ selectedMaterialIdx' = (selectedMaterialIdx + 1) % Len(materialNames)
  /\ jobs' = IF acCurrentJob # Nil /\ jobs[acCurrentJob].Sheet # NilSheet
             THEN [jobs EXCEPT ![acCurrentJob].Sheet.Material =
                     defaultMaterials[materialNames[selectedMaterialIdx' + 1]]]
             ELSE jobs
  /\ UNCHANGED <<build, jcCurrentJob, pressBrake, selectedDirectionIdx, dialog,
                 partsBentText, execs, ret, retired>>
  /\ UNCHANGED <<selectorVars, statusVars>>

\* lines 962-964
BendDirectionClick ==
  /\ Len(bendDirections) > 0
  /\ selectedDirectionIdx' = (selectedDirectionIdx + 1) % Len(bendDirections)
  /\ UNCHANGED <<build, jobs, jcCurrentJob, pressBrake, selectedMaterialIdx, dialog,
                 partsBentText, execs, ret, retired>>
  /\ UNCHANGED <<selectorVars, statusVars>>

\* line 965: handleSheetUpdate with the editors holding d = <<length, thickness, width>>
UpdateSheetBtnClick(d) ==
  /\ jobs' = HandleSheetUpdate(build, jobs, d[1], d[2], d[3], selectedMaterialIdx).jobs
  /\ UNCHANGED <<build, jcCurrentJob, pressBrake, selectedMaterialIdx,
                 selectedDirectionIdx, dialog, partsBentText, execs, ret, retired>>
  /\ UNCHANGED <<selectorVars, statusVars>>

\* line 966: handleAddBendStep (lines 995-1015) with the editors holding pos, angle, radius
AddBendBtnClick(pos, angle, radius) ==
  /\ Len(jobs[acCurrentJob].Steps) < MaxSteps
  /\ LET sheet == jobs[acCurrentJob].Sheet
         direction == IF selectedDirectionIdx >= 0 /\ selectedDirectionIdx < Len(bendDirections)
                      THEN bendDirections[selectedDirectionIdx + 1]
                      ELSE BendDirectionUp
         addStepAction == DialogAction("addStep", pos, angle, radius, direction)
     IN IF acCurrentJob = Nil \/ sheet = NilSheet
        THEN UNCHANGED <<jobs, dialog, retired>>
        ELSE IF HandlerRefusal(pos, angle, radius, sheet) # Nil
        THEN UNCHANGED <<jobs, dialog, retired>>
        ELSE IF NeedsRadiusWarning(radius, GetMinBendRadius(sheet))
        THEN /\ dialog' = showConfirmDialog(addStepAction,
                                            DialogAction("cancelAdd", 0, 0, 0, ""))
             /\ UNCHANGED <<jobs, retired>>
        ELSE /\ RunAddStepAction(addStepAction)
             /\ UNCHANGED dialog
  /\ UNCHANGED <<build, jcCurrentJob, pressBrake, selectedMaterialIdx,
                 selectedDirectionIdx, partsBentText, execs, ret>>
  /\ UNCHANGED <<selectorVars, statusVars>>

\* line 967: handleClearBendSequence (lines 1017-1027)
ClearBendsBtnClick ==
  /\ IF acCurrentJob = Nil \/ Len(jobs[acCurrentJob].Steps) = 0
     THEN UNCHANGED dialog
     ELSE dialog' = showConfirmDialog(DialogAction("clearSteps", 0, 0, 0, ""), NilAction)
  /\ UNCHANGED <<build, jobs, jcCurrentJob, pressBrake, selectedMaterialIdx,
                 selectedDirectionIdx, partsBentText, execs, ret, retired>>
  /\ UNCHANGED <<selectorVars, statusVars>>

\* line 970: the dialog's OK button.  dismissDialog runs first; the callback
\* is looked up in the controller afterwards.
DialogConfirmClick ==
  /\ dialog.showDialog
  /\ LET d == dismissDialog(dialog)
     IN /\ dialog' = d
        /\ IF d.confirmAction # NilAction
           THEN RunDialogAction(d.confirmAction)
           ELSE UNCHANGED <<jobs, retired>>
  /\ UNCHANGED <<build, jcCurrentJob, pressBrake, selectedMaterialIdx,
                 selectedDirectionIdx, partsBentText, execs, ret>>
  /\ UNCHANGED <<selectorVars, statusVars>>

\* line 971: the dialog's Cancel button
DialogCancelClick ==
  /\ dialog.showDialog
  /\ LET d == dismissDialog(dialog)
     IN /\ dialog' = d
        /\ IF d.cancelAction # NilAction
           THEN RunDialogAction(d.cancelAction)
           ELSE UNCHANGED <<jobs, retired>>
  /\ UNCHANGED <<build, jcCurrentJob, pressBrake, selectedMaterialIdx,
                 selectedDirectionIdx, partsBentText, execs, ret>>
  /\ UNCHANGED <<selectorVars, statusVars>>

\* lines 633-637: Escape with a dialog open
EscapeKey ==
  /\ dialog.showDialog
  /\ dialog' = dismissDialog(dialog)
  /\ UNCHANGED <<build, jobs, jcCurrentJob, pressBrake, selectedMaterialIdx,
                 selectedDirectionIdx, partsBentText, execs, ret, retired>>
  /\ UNCHANGED <<selectorVars, statusVars>>

\* what the user types into the bend editors
UIPositions == {0, 5000}
UIAngles == {900, 1791}
UIRadii == {0, 1, 3, 2000000, 6000000, 7000000, 1000000001}

\* what the user types into the sheet editors: <<length, thickness, width>>
UISheets == {<<30000, 200, 10000>>, <<4000, 100, 10000>>, <<5, 200, 10000>>}

Next ==
  \/ MaterialSelectClick
  \/ BendDirectionClick
  \/ \E d \in UISheets : UpdateSheetBtnClick(d)
  \/ \E pos \in UIPositions, angle \in UIAngles, radius \in UIRadii :
       AddBendBtnClick(pos, angle, radius)
  \/ ClearBendsBtnClick
  \/ DialogConfirmClick
  \/ DialogCancelClick
  \/ EscapeKey

Spec == Init /\ [][Next]_vars

(***************************************************************************)
(* Claims about the add-bend flow, checked under Spec.                     *)
(***************************************************************************)
\* the step a transition appended to job j, or NilStep if it appended none
Appended(j) ==
  IF /\ Len(jobs'[j].Steps) = Len(jobs[j].Steps) + 1
     /\ SubSeq(jobs'[j].Steps, 1, Len(jobs[j].Steps)) = jobs[j].Steps
  THEN jobs'[j].Steps[Len(jobs'[j].Steps)]
  ELSE NilStep

\* the transition is the OK click on the radius warning raised for step s
ProceedDecisionFor(s) ==
  /\ DialogConfirmClick
  /\ dialog.confirmAction.kind = "addStep"
  /\ dialog.confirmAction.pos = s.Position
  /\ dialog.confirmAction.angle = s.TargetAngle
  /\ dialog.confirmAction.radius = s.Radius
  /\ dialog.confirmAction.dir = s.Direction

C2_ProceedAppends ==
  [][\A j \in JobIds :
       LET a == dialog.confirmAction
       IN (/\ DialogConfirmClick
           /\ j = jcCurrentJob
           /\ a.kind = "addStep"
           /\ ~PositionOutOfBounds(a.pos, jobs[j].Sheet)
           /\ ~RadiusOutOfRange(a.radius)
           /\ ~AngleOutOfRange(a.angle))
          => jobs'[j].Steps =
               Append(jobs[j].Steps,
                      BendStep(Len(jobs[j].Steps) + 1, a.pos, a.angle, a.radius, a.dir))
    ]_vars

\* C15: when the user confirms the 'Clear Bend Sequence' dialog the current
\* job's step list becomes empty and its sheet Flat; when the dialog is
\* cancelled or dismissed (Cancel button or Escape) steps and sheet are unchanged
C15_ConfirmedClearClears ==
  [][/\ (DialogConfirmClick /\ dialog.confirmAction.kind = "clearSteps") =>
          /\ jobs'[acCurrentJob].Steps = <<>>
          /\ jobs'[acCurrentJob].Sheet.CurrentBends = <<>>
     /\ ((DialogCancelClick \/ EscapeKey) /\ dialog.confirmAction.kind = "clearSteps") =>
          jobs' = jobs]_vars

(***************************************************************************)
(* Claims about the engine, checked under SpecDomain.                      *)
(***************************************************************************)
\* the inputs the engine's validation is evaluated on in every reachable state
GridPositions == {-100, 0, 1, 2000, 4000, 5000, 29999, 30000, 30100}
GridAngles == {0, 9, 10, 900, 1790, 1791}
GridRadii == {-1, 0, 1, 7000000, 1000000000, 1000000001}

CurrentSheet == jobs[jcCurrentJob].Sheet
CurrentSteps == jobs[jcCurrentJob].Steps
HasCurrentSheet == jcCurrentJob # Nil /\ CurrentSheet # NilSheet

\* C3: for every position <= 0 or >= sheet.OriginalLength (boundaries excluded),
\* AddBendStepToCurrentJob returns the position-bound error and no step, and
\* leaves the job's step list and the sheet as they were.
C3_PositionRejected ==
  HasCurrentSheet =>
    \A pos \in GridPositions, angle \in GridAngles, radius \in GridRadii :
      (pos <= 0 \/ pos >= CurrentSheet.OriginalLength) =>
        LET r == AddBendStepOf(build, jobs, jcCurrentJob, pos, angle, radius,
                               BendDirectionUp)
        IN r.err = ErrPosition /\ r.step = NilStep /\ r.jobs = jobs

\* a call was refused for its position on a job that already holds a step
C3_Witness ==
  /\ ret.op = "AddBendStep" /\ ret.err = ErrPosition
  /\ Len(jobs["J1"].Steps) > 0
  /\ 30000 \in GridPositions /\ jobs["J1"].Sheet.OriginalLength = 30000

\* C4: for every radius < 0 or > 500 and every angle < 1 or > 179, with the
\* position in range, AddBendStepToCurrentJob returns an error and appends
\* nothing: step list and sheet are as before the call.
C4_RangeRejected ==
  HasCurrentSheet =>
    \A pos \in GridPositions, angle \in GridAngles, radius \in GridRadii :
      (/\ pos > 0 /\ pos < CurrentSheet.OriginalLength
       /\ \/ radius < minBendRadius \/ radius > maxBendRadius
          \/ angle < minBendAngle \/ angle > maxBendAngle) =>
        LET r == AddBendStepOf(build, jobs, jcCurrentJob, pos, angle, radius,
                               BendDirectionUp)
        IN r.err # Nil /\ r.step = NilStep /\ r.jobs = jobs

\* C5: in every reachable state the step at 0-based index i of a job's step
\* list has SequenceOrder i+1 (the model's sequences are 1-based).
C5_SequenceDense ==
  \A j \in JobIds : \A i \in DOMAIN jobs[j].Steps :
    jobs[j].Steps[i].SequenceOrder = i

\* a job cleared once, refilled to two steps and executed
C5_Witness ==
  /\ Len(jobs["J1"].Steps) >= 2
  /\ retired["J1"] # {}
  /\ pressBrake.totalPartsBentSession > 0
  /\ jobs["J1"].Sheet.OriginalLength # InitialLength

\* C6 as claimed: no step in a job's list carries a SequenceOrder that a clear
\* of that job removed earlier.
C6_NeverReused ==
  \A j \in JobIds : \A i \in DOMAIN jobs[j].Steps :
    jobs[j].Steps[i].SequenceOrder \notin retired[j]

\* C6 amended: numbering restarts after a clear; the first step appended to an
\* empty list, also one that a clear emptied, gets SequenceOrder 1, and within
\* one list no SequenceOrder occurs twice.
C6_RestartsAtOne ==
  [][\A j \in JobIds :
       /\ (jobs[j].Steps = <<>> /\ jobs'[j].Steps # <<>>) =>
            (Len(jobs'[j].Steps) = 1 /\ jobs'[j].Steps[1].SequenceOrder = 1)
       /\ \A a, b \in DOMAIN jobs'[j].Steps :
            a # b => jobs'[j].Steps[a].SequenceOrder # jobs'[j].Steps[b].SequenceOrder
    ]_vars

\* a step numbered 1 stands in a list whose earlier step 1 was cleared
C6_Witness ==
  /\ jobs["J1"].Steps # <<>>
  /\ jobs["J1"].Steps[1].SequenceOrder \in retired["J1"]

\* C7: across every operation a job's new step list is the old one, the old one
\* with one step appended, or empty; no step already in the list is removed,
\* moved or changed.
C7_AppendOnlyUntilCleared ==
  [][\A j \in JobIds :
       LET old == jobs[j].Steps
           new == jobs'[j].Steps
       IN \/ new = old
          \/ new = <<>>
          \/ Len(new) = Len(old) + 1 /\ SubSeq(new, 1, Len(old)) = old
    ]_vars

\* a full list outlived an execution; and a clear has happened before
C7_Witness ==
  /\ ret.op = "ProcessJob" /\ ret.err = Nil
  /\ Len(jobs["J1"].Steps) = MaxSteps
  /\ retired["J1"] # {}

\* C8: right after a successful ProcessJob, the sheet's CurrentBends is the
\* job's step list, field for field and in order, however many calls preceded.
C8_ReplayIsTheStepList ==
  (ret.op = "ProcessJob" /\ ret.err = Nil) =>
    \E j \in JobIds :
      /\ jobs[j].Sheet # NilSheet
      /\ jobs[j].Sheet.CurrentBends = jobs[j].Steps
      /\ Len(jobs[j].Sheet.CurrentBends) = Len(jobs[j].Steps)

\* the second (or later) successful call on a job of two different steps
C8_Witness ==
  /\ ret.op = "ProcessJob" /\ ret.err = Nil
  /\ pressBrake.totalPartsBentSession >= 2
  /\ Len(jobs["J1"].Steps) >= 2
  /\ jobs["J1"].Steps[1].Position # jobs["J1"].Steps[2].Position
  /\ jobs["J1"].Sheet.CurrentBends = jobs["J1"].Steps

\* C12: every successful ProcessJob call made in sequence raises
\* totalPartsBentSession by exactly 1, whatever the number of steps of the job
\* (none included), and two successful calls in a row raise it by exactly 2
C12_OnePartPerRun ==
  [][\A j \in JobIds \cup {Nil} :
       LET r1 == ProcessJob(jobs, pressBrake, j)
           r2 == ProcessJob(r1.jobs, r1.pb, j)
       IN /\ (CallProcessJob(j) /\ r1.err = Nil) =>
               pressBrake'.totalPartsBentSession = pressBrake.totalPartsBentSession + 1
          /\ (r1.err = Nil /\ r2.err = Nil) =>
               r2.pb.totalPartsBentSession = pressBrake.totalPartsBentSession + 2]_vars

\* the second successful run of a job without steps has been counted
C12_Witness ==
  /\ ret.op = "ProcessJob" /\ ret.err = Nil
  /\ jobs["J1"].Steps = <<>>
  /\ pressBrake.totalPartsBentSession = 2

(***************************************************************************)
(* Job execution (lines 1029-1058).  Every accepted click of the execute   *)
(* button starts a goroutine that calls ProcessJob(ac.currentJob); nothing *)
(* holds a lock.  The goroutine's accesses to the sheet and to the counter *)
(* are unsynchronised, so each read and each write of shared memory is a   *)
(* step of its own and the steps of different goroutines, and of the UI    *)
(* thread, interleave freely.                                              *)
(***************************************************************************)
\* the goroutine has entered ProcessJob and has not returned from it
InProcessJob(e) == e.pc \in {"loop", "append", "count", "store"}

\* the goroutines started so far
Started == {g \in 1..MaxRuns : execs[g].pc # "idle"}

\* line 968: handleExecuteBendProcess (lines 1029-1034): refusals, else go func()
ExecuteBtnClick ==
  /\ \E g \in 1..MaxRuns : execs[g].pc = "idle"
  /\ LET g == CHOOSE n \in 1..MaxRuns :
                  /\ execs[n].pc = "idle"
                  /\ \A m \in 1..MaxRuns : execs[m].pc = "idle" => n <= m
     IN IF acCurrentJob = Nil \/ jobs[acCurrentJob].Sheet = NilSheet
        THEN UNCHANGED execs
        ELSE IF Len(jobs[acCurrentJob].Steps) = 0
        THEN UNCHANGED execs
        ELSE IF pressBrake.currentPunch = Nil \/ pressBrake.currentDie = Nil
        THEN UNCHANGED execs
        ELSE execs' = [execs EXCEPT ![g] = Exec("start", <<>>, 0, <<>>, 0)]
  /\ UNCHANGED <<build, jobs, jcCurrentJob, pressBrake, selectedMaterialIdx,
                 selectedDirectionIdx, dialog, partsBentText, ret, retired>>
  /\ UNCHANGED <<selectorVars, statusVars>>

\* lines 1036, 328-336: the call, the precondition checks, ResetForm, and the
\* range statement's single evaluation of j.Steps
ProcessJobEnter(g) ==
  /\ execs[g].pc = "start"
  /\ LET j == acCurrentJob
     IN IF j = Nil \/ jobs[j].Sheet = NilSheet
           \/ pressBrake.currentPunch = Nil \/ pressBrake.currentDie = Nil
        THEN /\ execs' = [execs EXCEPT ![g].pc = "done"]
             /\ UNCHANGED jobs
        ELSE /\ jobs' = [jobs EXCEPT ![j].Sheet = StartOfRun(jobs[j].Sheet)]
             /\ execs' = [execs EXCEPT ![g] = Exec("loop", jobs[j].Steps, 0, <<>>, 0)]
  /\ UNCHANGED <<build, jcCurrentJob, pressBrake, selectedMaterialIdx,
                 selectedDirectionIdx, dialog, partsBentText, ret, retired>>
  /\ UNCHANGED <<selectorVars, statusVars>>

\* line 336 and the right-hand side of line 345: next step of the range, or
\* loop exit; the goroutine reads j.Sheet.CurrentBends
ProcessJobLoopRead(g) ==
  /\ execs[g].pc = "loop"
  /\ execs' = [execs EXCEPT ![g] =
                 IF execs[g].i < Len(execs[g].steps)
                 THEN [@ EXCEPT !.pc = "append",
                                !.bends = jobs[acCurrentJob].Sheet.CurrentBends]
                 ELSE [@ EXCEPT !.pc = "count"]]
  /\ UNCHANGED <<build, jobs, jcCurrentJob, pressBrake, selectedMaterialIdx,
                 selectedDirectionIdx, dialog, partsBentText, ret, retired>>
  /\ UNCHANGED <<selectorVars, statusVars>>

\* a loop body that records nothing and does not move on to the next step
ProcessJobLoopAppend_NoAdvance(g) ==
  /\ execs[g].pc = "append"
  /\ execs' = [execs EXCEPT ![g].pc = "loop", ![g].bends = <<>>]
  /\ UNCHANGED <<build, jobs, jcCurrentJob, pressBrake, selectedMaterialIdx,
                 selectedDirectionIdx, dialog, partsBentText, ret, retired>>
  /\ UNCHANGED <<selectorVars, statusVars>>

\* the assignment of line 345: the slice read earlier, extended by the step
ProcessJobLoopAppend(g) ==
  /\ execs[g].pc = "append"
  /\ jobs' = [jobs EXCEPT ![acCurrentJob].Sheet.CurrentBends =
                Append(execs[g].bends, execs[g].steps[execs[g].i + 1])]
  /\ execs' = [execs EXCEPT ![g].pc = "loop", ![g].i = @ + 1, ![g].bends = <<>>]
  /\ UNCHANGED <<build, jcCurrentJob, pressBrake, selectedMaterialIdx,
                 selectedDirectionIdx, dialog, partsBentText, ret, retired>>
  /\ UNCHANGED <<selectorVars, statusVars>>

\* line 348, pb.totalPartsBentSession++: the load
ProcessJobCountRead(g) ==
  /\ execs[g].pc = "count"
  /\ execs' = [execs EXCEPT ![g].pc = "store",
                            ![g].count = pressBrake.totalPartsBentSession]
  /\ UNCHANGED <<build, jobs, jcCurrentJob, pressBrake, selectedMaterialIdx,
                 selectedDirectionIdx, dialog, partsBentText, ret, retired>>
  /\ UNCHANGED <<selectorVars, statusVars>>

\* line 348, pb.totalPartsBentSession++: the store, and the return of line 350
ProcessJobCountWrite(g) ==
  /\ execs[g].pc = "store"
  /\ pressBrake' = [pressBrake EXCEPT !.totalPartsBentSession = execs[g].count + 1]
  /\ execs' = [execs EXCEPT ![g].pc = "publish", ![g].count = 0]
  /\ UNCHANGED <<build, jobs, jcCurrentJob, selectedMaterialIdx,
                 selectedDirectionIdx, dialog, partsBentText, ret, retired>>
  /\ UNCHANGED <<selectorVars, statusVars>>

\* line 1044, right-hand side: GetTotalPartsBentSession() reads the counter
\* for the text to be formatted
PublishPartsBentRead(g) ==
  /\ execs[g].pc = "publish"
  /\ execs' = [execs EXCEPT ![g].pc = "show",
                            ![g].count = pressBrake.totalPartsBentSession]
  /\ UNCHANGED <<build, jobs, jcCurrentJob, pressBrake, selectedMaterialIdx,
                 selectedDirectionIdx, dialog, partsBentText, ret, retired>>
  /\ UNCHANGED <<selectorVars, statusVars>>

\* line 1044, the assignment: partsBentText gets the formatted count; lines
\* 1045-1056 write the profile file and the status line only
PublishPartsBent(g) ==
  /\ execs[g].pc = "show"
  /\ partsBentText' = execs[g].count
  /\ execs' = [execs EXCEPT ![g].pc = "done", ![g].count = 0]
  /\ UNCHANGED <<build, jobs, jcCurrentJob, pressBrake, selectedMaterialIdx,
                 selectedDirectionIdx, dialog, ret, retired>>
  /\ UNCHANGED <<selectorVars, statusVars>>

\* the editor values typed while jobs execute
ExecPositions == {2000, 5000}
ExecAngles == {900}
ExecRadii == {7000000}

\* the UI thread adds steps and starts executions; the goroutines run
NextExec ==
  \/ \E pos \in ExecPositions, angle \in ExecAngles, radius \in ExecRadii :
       AddBendBtnClick(pos, angle, radius)
  \/ ExecuteBtnClick
  \/ \E g \in 1..MaxRuns : ProcessJobEnter(g)
  \/ \E g \in 1..MaxRuns : ProcessJobLoopRead(g)
  \/ \E g \in 1..MaxRuns : ProcessJobLoopAppend(g)
  \/ \E g \in 1..MaxRuns : ProcessJobCountRead(g)
  \/ \E g \in 1..MaxRuns : ProcessJobCountWrite(g)
  \/ \E g \in 1..MaxRuns : PublishPartsBentRead(g)
  \/ \E g \in 1..MaxRuns : PublishPartsBent(g)

SpecExec == Init /\ [][NextExec]_vars

\* C9: at most one ProcessJob execution on the current job is in progress at
\* any time, whatever the interleaving of UI events (repeated clicks on the
\* execute button included)
C9_AtMostOneInProgress ==
  Cardinality({g \in 1..MaxRuns : InProcessJob(execs[g])}) <= 1

\* C10: when all the executions that were started have completed successfully,
\* the session counter equals its initial value (0) plus their number, under
\* every interleaving of their loads and stores of totalPartsBentSession
C10_CountedOncePerExecution ==
  (\A g \in Started : execs[g].pc = "done")
    => pressBrake.totalPartsBentSession = Cardinality(Started)

\* C11: whenever a ProcessJob execution has returned successfully and its
\* sheet is about to be handed to GenerateSVGProfile, the sheet's CurrentBends
\* is exactly the step sequence that execution replayed (nothing missing,
\* duplicated or partially applied), whatever interleaves with its loop
C11_NoPartialResult ==
  \A g \in 1..MaxRuns :
    execs[g].pc = "publish" =>
      jobs[acCurrentJob].Sheet.CurrentBends = execs[g].steps

(***************************************************************************)
(* The engine assembled by its constructors with any arguments: a press    *)
(* brake built by NewPressBrake with or without tools (lines 311-313), a   *)
(* job controller fresh from NewJobController (line 258, no current job),  *)
(* and a second job beside the application's.  The operations are called   *)
(* one at a time.                                                          *)
(***************************************************************************)
NewPressBrake(punch, die) ==
  [currentPunch |-> punch, currentDie |-> die, totalPartsBentSession |-> 0]

\* a tool change that also starts a new session
SetPunch_ResetsSession(pb, p) ==
  [pb EXCEPT !.currentPunch = p, !.totalPartsBentSession = 0]

\* lines 314-317 (the log line reads p.Name: p is never nil)
SetPunch(pb, p) == [pb EXCEPT !.currentPunch = p]

\* lines 318-321
SetDie(pb, d) == [pb EXCEPT !.currentDie = d]

\* tools of NewToolingManager (lines 174-186) the driver selects
MachinePunches == {DefaultPunch, "P88.10.R06"}
MachineDies == {DefaultDie}

\* a short sheet: no proposal of the driver fits on it
SecondSheet ==
  NewSheetMetal("Sheet-002", 1000, 10000, 100, defaultMaterials["Aluminum"]).sheet

InitMachine ==
  /\ build \in {Monolith, Refactored}
  /\ \E second \in {NilSheet, SecondSheet} :
       jobs = [j \in JobIds |->
                 IF j = "J1" THEN NewJob("DefaultJob-001", InitialSheet).job
                 ELSE [Name |-> "Job-002", Sheet |-> second, Steps |-> <<>>]]
  /\ jcCurrentJob = Nil
  /\ \E punch \in {Nil, DefaultPunch}, die \in {Nil, DefaultDie} :
       pressBrake = NewPressBrake(punch, die)
  /\ selectedMaterialIdx = 0
  /\ selectedDirectionIdx = 0
  /\ dialog = NoDialog
  /\ partsBentText = 0
  /\ execs = [g \in 1..MaxRuns |-> IdleExec]
  /\ ret = NoCall
  /\ retired = [j \in JobIds |-> {}]
  /\ InitSelectors(listedPunchNames, listedDieNames)
  /\ InitStatus

CallSetPunch(p) ==
  /\ pressBrake' = SetPunch(pressBrake, p)
  /\ ret' = [op |-> "SetPunch", err |-> Nil, step |-> NilStep]
  /\ UNCHANGED <<build, jobs, jcCurrentJob, retired, uiVars>>

CallSetDie(d) ==
  /\ pressBrake' = SetDie(pressBrake, d)
  /\ ret' = [op |-> "SetDie", err |-> Nil, step |-> NilStep]
  /\ UNCHANGED <<build, jobs, jcCurrentJob, retired, uiVars>>

\* the proposals and sheet dimensions the driver uses here
MachineProposals ==
  {[pos |-> 2000, angle |-> 900, radius |-> 7000000, dir |-> BendDirectionUp],
   [pos |-> 0, angle |-> 900, radius |-> 7000000, dir |-> BendDirectionUp]}

MachineSheets == {<<4000, 200, 10000>>, <<30000, 5, 10000>>, <<0, 200, 10000>>}

NextMachine ==
  \/ \E j \in JobIds \cup {Nil} : CallSetCurrentJob(j)
  \/ \E p \in MachineProposals : CallAddBendStep(p)
  \/ CallClearBendSteps
  \/ \E j \in JobIds \cup {Nil} : CallProcessJob(j)
  \/ \E p \in MachinePunches : CallSetPunch(p)
  \/ \E d \in MachineDies : CallSetDie(d)
  \/ \E d \in MachineSheets : CallSheetUpdate(d)
  \/ MaterialSelectClick

SpecMachine == InitMachine /\ [][NextMachine]_vars

\* C13: ProcessJob fails before mutating anything: with a nil job or a nil
\* job.Sheet it returns the 'job or sheet is nil' error, otherwise with an
\* unset punch or die the 'tooling not set' error; in both cases the counter,
\* every sheet's CurrentBends and every job's steps are unchanged and no
\* sheet is returned
C13_FailsBeforeMutating ==
  \A j \in JobIds \cup {Nil} :
    LET r == ProcessJob(jobs, pressBrake, j)
        noJob == j = Nil \/ jobs[j].Sheet = NilSheet
        noTool == pressBrake.currentPunch = Nil \/ pressBrake.currentDie = Nil
    IN /\ noJob => r.err = ErrNilJobOrSheet
       /\ (~noJob /\ noTool) => r.err = ErrToolingNotSet
       /\ (noJob \/ noTool) =>
            /\ r.sheet = NilSheet
            /\ r.pb.totalPartsBentSession = pressBrake.totalPartsBentSession
            /\ \A k \in JobIds : /\ r.jobs[k].Steps = jobs[k].Steps
                                 /\ r.jobs[k].Sheet = jobs[k].Sheet

\* a job with steps was refused for want of tooling
C13_Witness ==
  /\ ret.op = "ProcessJob" /\ ret.err = ErrToolingNotSet
  /\ Len(jobs["J1"].Steps) > 0
  /\ pressBrake.totalPartsBentSession = 0

\* C14: ClearSteps on a current job always succeeds, leaves the step list
\* empty and the sheet Flat (CurrentBends empty), and is idempotent: on an
\* already-empty job, or called twice in a row, it yields the same state as
\* calling it once
C14_ClearIdempotent ==
  jcCurrentJob # Nil =>
    LET once == ClearBendStepsFromCurrentJob(jobs, jcCurrentJob)
        twice == ClearBendStepsFromCurrentJob(once.jobs, jcCurrentJob)
    IN /\ once.err = Nil
       /\ once.jobs[jcCurrentJob].Steps = <<>>
       /\ once.jobs[jcCurrentJob].Sheet # NilSheet =>
            once.jobs[jcCurrentJob].Sheet.CurrentBends = <<>>
       /\ twice.err = Nil
       /\ twice.jobs = once.jobs
       /\ (jobs[jcCurrentJob].Steps = <<>> /\ jobs[jcCurrentJob].Sheet.CurrentBends = <<>>)
            => once.jobs = jobs

\* a clear has emptied a job of two steps, on a press brake that has run a job
C14_Witness ==
  /\ ret.op = "ClearBendSteps" /\ ret.err = Nil
  /\ jcCurrentJob = "J1"
  /\ retired["J1"] = {1, 2}
  /\ jobs["J1"].Steps = <<>>
  /\ jobs["J1"].Sheet.CurrentBends = <<>>
  /\ pressBrake.totalPartsBentSession > 0

\* C16: precondition failures of the job controller refuse the operation and
\* leave state untouched: AddStep and ClearSteps with no current job return an
\* error; AddStep on a job whose sheet is unset returns an error (checked
\* after the no-current-job check); the controller's current job, every job's
\* step list and every sheet are unchanged
C16_PreconditionRefusals ==
  [][/\ jcCurrentJob = Nil =>
          /\ \A p \in CallProposals :
               LET r == AddBendStepOf(build, jobs, jcCurrentJob, p.pos, p.angle, p.radius, p.dir)
               IN r.err = ErrNoCurrentJob /\ r.step = NilStep /\ r.jobs = jobs
          /\ LET c == ClearBendStepsFromCurrentJob(jobs, jcCurrentJob)
             IN c.err = ErrNoJobToClear /\ c.jobs = jobs
     /\ (jcCurrentJob # Nil /\ jobs[jcCurrentJob].Sheet = NilSheet) =>
          \A p \in CallProposals :
            LET r == AddBendStepOf(build, jobs, jcCurrentJob, p.pos, p.angle, p.radius, p.dir)
            IN r.err = ErrNoSheet /\ r.step = NilStep /\ r.jobs = jobs
     /\ \A p \in MachineProposals :
          (CallAddBendStep(p) /\ (jcCurrentJob = Nil \/ jobs[jcCurrentJob].Sheet = NilSheet)) =>
            /\ ret'.err \in {ErrNoCurrentJob, ErrNoSheet}
            /\ UNCHANGED <<jobs, jcCurrentJob>>
     /\ (CallClearBendSteps /\ jcCurrentJob = Nil) =>
          /\ ret'.err = ErrNoJobToClear
          /\ UNCHANGED <<jobs, jcCurrentJob>>]_vars

\* AddStep was refused on a current job without sheet
C16_Witness ==
  /\ ret.op = "AddBendStep" /\ ret.err = ErrNoSheet
  /\ jcCurrentJob = "J2"
  /\ jobs["J2"].Sheet = NilSheet /\ jobs["J2"].Steps = <<>>

\* C17: a sheet becomes Formed (CurrentBends non-empty) only through
\* ProcessJob: no other operation (AddStep, ClearSteps, SetPunch, SetDie,
\* sheet-property update, material selection, SetCurrentJob) changes
\* CurrentBends from empty to non-empty or appends to it; every other change
\* of CurrentBends sets it to empty
C17_FormedOnlyByProcessJob ==
  [][\A k \in JobIds :
       jobs'[k].Sheet.CurrentBends # jobs[k].Sheet.CurrentBends =>
         \/ jobs'[k].Sheet.CurrentBends = <<>>
         \/ \E j \in JobIds \cup {Nil} : CallProcessJob(j)]_vars

\* a step was added after a run and the formed sheet was left as it was
C17_Witness ==
  /\ ret.op = "AddBendStep" /\ ret.err = Nil
  /\ jobs["J1"].Sheet.CurrentBends # <<>>
  /\ Len(jobs["J1"].Steps) > Len(jobs["J1"].Sheet.CurrentBends)

\* C18: totalPartsBentSession never decreases over any execution and changes
\* only in a successful ProcessJob step: AddStep, ClearSteps, SetPunch, SetDie,
\* sheet update, SetCurrentJob and failed ProcessJob calls leave it unchanged,
\* and it carries over from one job to the next processed on the same
\* PressBrake
C18_CounterOnlyBySuccessfulRun ==
  [][/\ pressBrake'.totalPartsBentSession >= pressBrake.totalPartsBentSession
     /\ pressBrake'.totalPartsBentSession # pressBrake.totalPartsBentSession =>
          \/ \E j \in JobIds \cup {Nil} :
               CallProcessJob(j) /\ ProcessJob(jobs, pressBrake, j).err = Nil
          \/ \E g \in 1..MaxRuns : ProcessJobCountWrite(g)
     /\ \A j \in JobIds \cup {Nil} :
          (CallProcessJob(j) /\ ProcessJob(jobs, pressBrake, j).err # Nil) =>
            pressBrake' = pressBrake
     /\ \A j1, j2 \in JobIds :
          LET r1 == ProcessJob(jobs, pressBrake, j1)
              r2 == ProcessJob(r1.jobs, r1.pb, j2)
          IN (j1 # j2 /\ r1.err = Nil /\ r2.err = Nil) =>
               r2.pb.totalPartsBentSession = pressBrake.totalPartsBentSession + 2]_vars

\* the sheet dimensions the update is evaluated on in every reachable state
GridDimensions == {9, 10, 1000000, 1000001}

C20_PropertyChangeClearsForm ==
  [][\A k \in JobIds :
       LET old == jobs[k].Sheet
           new == jobs'[k].Sheet
       IN (\/ new.OriginalLength # old.OriginalLength
           \/ new.Width # old.Width
           \/ new.Thickness # old.Thickness
           \/ new.Material # old.Material) => new.CurrentBends = <<>>]_vars

GridSheetIds == {"", "Sheet-001"}
GridConstructorDimensions == {-1, 0, 1, 30000}
GridMaterials == {Material("", 15), defaultMaterials["Steel"]}
GridJobNames == {"", "DefaultJob-001"}

(***************************************************************************)
(* C22: NewSheetMetal fails when the ID is empty, when a dimension is zero *)
(* or negative, or when the material has no name, and NewJob fails when    *)
(* the name is empty or the sheet is nil; when they succeed the sheet has  *)
(* no bends recorded and the job no steps.                                 *)
(***************************************************************************)
C22_ConstructorsValidate ==
  /\ \A id \in GridSheetIds, m \in GridMaterials :
       \A l \in GridConstructorDimensions, w \in GridConstructorDimensions,
          t \in GridConstructorDimensions :
         LET r == NewSheetMetalOf(build, id, l, w, t, m)
         IN IF id = "" \/ l <= 0 \/ w <= 0 \/ t <= 0 \/ m.Name = ""
            THEN r.err # Nil /\ r.sheet = NilSheet
            ELSE /\ r.err = Nil
                 /\ r.sheet = [ID |-> id, OriginalLength |-> l, Thickness |-> t,
                               Width |-> w, Material |-> m, CurrentBends |-> <<>>]
  /\ \A name \in GridJobNames, sheet \in {NilSheet, jobs[acCurrentJob].Sheet} :
       LET r == NewJob(name, sheet)
       IN IF name = "" \/ sheet = NilSheet
          THEN r.err # Nil /\ r.job = NilJob
          ELSE /\ r.err = Nil
               /\ r.job = [Name |-> name, Sheet |-> sheet, Steps |-> <<>>]

(***************************************************************************)
(* C23: SetPunch and SetDie with a tool always succeed and change nothing  *)
(* but the punch, respectively the die: the jobs, their steps and sheets,  *)
(* the current job and the session's part count stay as they were, so the  *)
(* outcome of every AddBendStepToCurrentJob is the same after the change   *)
(* as before it; and whether an add is accepted depends on the current job *)
(* and its sheet only, whatever tooling is set or missing.                 *)
(***************************************************************************)
C23_ToolingFrame ==
  [][ /\ \A p \in MachinePunches :
           CallSetPunch(p) =>
             /\ ret'.err = Nil
             /\ pressBrake'.currentPunch = p
             /\ pressBrake'.currentDie = pressBrake.currentDie
             /\ pressBrake'.totalPartsBentSession = pressBrake.totalPartsBentSession
      /\ \A d \in MachineDies :
           CallSetDie(d) =>
             /\ ret'.err = Nil
             /\ pressBrake'.currentDie = d
             /\ pressBrake'.currentPunch = pressBrake.currentPunch
             /\ pressBrake'.totalPartsBentSession = pressBrake.totalPartsBentSession
      /\ ((\E p \in MachinePunches : CallSetPunch(p))
            \/ (\E d \in MachineDies : CallSetDie(d))) =>
             /\ jobs' = jobs
             /\ jcCurrentJob' = jcCurrentJob
             /\ \A q \in MachineProposals :
                  AddBendStepOf(build, jobs', jcCurrentJob', q.pos, q.angle, q.radius, q.dir)
                    = AddBendStepOf(build, jobs, jcCurrentJob, q.pos, q.angle, q.radius, q.dir)
      /\ \A q \in MachineProposals :
           CallAddBendStep(q) =>
             (ret'.err = Nil <=>
                /\ jcCurrentJob # Nil
                /\ jobs[jcCurrentJob].Sheet # NilSheet
                /\ 0 < q.pos
                /\ q.pos < jobs[jcCurrentJob].Sheet.OriginalLength)
    ]_vars

\* the punch was changed on a machine that has no die, after two steps were
\* accepted without complete tooling
C23_Witness ==
  /\ ret.op = "SetPunch"
  /\ pressBrake.currentPunch = "P88.10.R06"
  /\ pressBrake.currentDie = Nil
  /\ Len(jobs["J1"].Steps) = 2

(***************************************************************************)
(* Claims about the add-bend handler, checked under Spec.                  *)
(***************************************************************************)
\* the add button was clicked with pos, angle, radius in the editors, all three
\* within their bounds for the current sheet
InRangeAddClick(pos, angle, radius) ==
  /\ jobs[acCurrentJob].Sheet # NilSheet
  /\ 0 < pos /\ pos < jobs[acCurrentJob].Sheet.OriginalLength
  /\ minBendAngle <= angle /\ angle <= maxBendAngle
  /\ minBendRadius <= radius /\ radius <= maxBendRadius
  /\ AddBendBtnClick(pos, angle, radius)

\* what the click does when the radius counts as below the minimum from
\* `lowest` (exclusive) on
ClassifiedFrom(lowest, pos, angle, radius) ==
  LET sheet == jobs[acCurrentJob].Sheet
      min == GetMinBendRadius(sheet) * RadiusUnitsPerMilli
      direction == bendDirections[selectedDirectionIdx + 1]
  IN /\ (sheet.Thickness = 200 /\ sheet.Material.MinBendRadiusFactor = 15)
          => min = 6000000
     /\ IF lowest < radius /\ radius < min
        THEN /\ dialog'.showDialog
             /\ dialog'.confirmAction = DialogAction("addStep", pos, angle, radius, direction)
             /\ jobs' = jobs
        ELSE /\ Appended(acCurrentJob)
                  = BendStep(Len(jobs[acCurrentJob].Steps) + 1, pos, angle, radius, direction)
             /\ dialog' = dialog

GridThicknesses == {-200, 0, 5, 200}
GridFactors == {-10, 0, 8, 15}

(***************************************************************************)
(* C25: GetMinBendRadius returns thickness * MinBendRadiusFactor when the  *)
(* factor is above zero and thickness * 0.5 when it is not, for a          *)
(* thickness above zero, and 0 for a thickness that is not above zero; it  *)
(* is never negative.  For the sheet of the current job, whatever          *)
(* thickness and material it was given, it is thickness * factor.          *)
(***************************************************************************)
C25_MinBendRadius ==
  /\ \A t \in GridThicknesses, f \in GridFactors :
       LET s == [InitialSheet EXCEPT !.Thickness = t, !.Material = Material("M", f)]
           min == GetMinBendRadius(s)
       IN /\ min >= 0
          /\ t <= 0 => min = 0
          /\ (t > 0 /\ f > 0) => min = t * f
          /\ (t > 0 /\ f <= 0) => min * 2 = t * 10    \* half the thickness
  /\ GetMinBendRadius([InitialSheet EXCEPT !.Thickness = 200,
                                           !.Material = Material("M", 15)]) = 3000
  /\ LET s == jobs[acCurrentJob].Sheet
     IN GetMinBendRadius(s) = s.Thickness * s.Material.MinBendRadiusFactor

\* the current sheet is 1 mm copper (factor 0.8): its minimum radius is 0.8 mm
C25_Witness ==
  /\ jobs[acCurrentJob].Sheet.Thickness = 100
  /\ jobs[acCurrentJob].Sheet.Material = defaultMaterials["Copper"]
  /\ GetMinBendRadius(jobs[acCurrentJob].Sheet) = 800

(***************************************************************************)
(* The application with a fair scheduler: every goroutine that can take a  *)
(* step eventually takes it.  The UI thread is under no obligation.        *)
(***************************************************************************)
\* the executions the user starts in a session
MaxFairRuns == 1

\* a step of goroutine g: the body of go func() (lines 1035-1057)
GoroutineStep(g) ==
  \/ ProcessJobEnter(g)
  \/ ProcessJobLoopRead(g)
  \/ ProcessJobLoopAppend(g)
  \/ ProcessJobCountRead(g)
  \/ ProcessJobCountWrite(g)
  \/ PublishPartsBentRead(g)
  \/ PublishPartsBent(g)

ExecuteBtnClickInSession ==
  /\ Cardinality(Started) < MaxFairRuns
  /\ ExecuteBtnClick

NextExecFair ==
  \/ \E pos \in ExecPositions, angle \in ExecAngles, radius \in ExecRadii :
       AddBendBtnClick(pos, angle, radius)
  \/ ExecuteBtnClickInSession
  \/ \E g \in 1..MaxRuns : GoroutineStep(g)

FairScheduling == \A g \in 1..MaxRuns : WF_vars(GoroutineStep(g))

SpecExecFair == Init /\ [][NextExecFair]_vars /\ FairScheduling

GetCurrentJob(cur) == cur

(***************************************************************************)
(* C27: SetCurrentJob changes which job is current and nothing else: the   *)
(* job that was current keeps its name, sheet and steps, as does every     *)
(* other job, and the machine is untouched.  GetCurrentJob returns the job *)
(* last set: no other operation changes it.                                *)
(***************************************************************************)
C27_SetCurrentJobFrame ==
  [][/\ \A j \in JobIds \cup {Nil} :
          CallSetCurrentJob(j) =>
            /\ GetCurrentJob(jcCurrentJob') = j
            /\ jobs' = jobs
            /\ pressBrake' = pressBrake
     /\ ~(\E j \in JobIds \cup {Nil} : CallSetCurrentJob(j)) =>
          GetCurrentJob(jcCurrentJob') = GetCurrentJob(jcCurrentJob)
    ]_vars

\* the controller was switched to the second job while the first holds a plan
\* of two steps and a formed sheet
C27_Witness ==
  /\ ret.op = "SetCurrentJob"
  /\ GetCurrentJob(jcCurrentJob) = "J2"
  /\ Len(jobs["J1"].Steps) = 2
  /\ jobs["J1"].Sheet.CurrentBends # <<>>

(***************************************************************************)
(* C28: in every reachable state every step of a job's plan lies on the    *)
(* job's current sheet: 0 < Position < sheet.OriginalLength.               *)
(***************************************************************************)
C28_PlanFitsSheet ==
  \A j \in JobIds :
    jobs[j].Sheet # NilSheet =>
      \A i \in DOMAIN jobs[j].Steps :
        /\ 0 < jobs[j].Steps[i].Position
        /\ jobs[j].Steps[i].Position < jobs[j].Sheet.OriginalLength

(***************************************************************************)
(* C29: run from the same jobs with the same current job on the same       *)
(* position, angle, radius and direction, the monolithic and the           *)
(* refactored AddBendStepToCurrentJob accept and refuse the same           *)
(* proposals, return the same step and leave the same step lists.          *)
(***************************************************************************)
C29_ControllersEquivalent ==
  \A cur \in JobIds \cup {Nil} :
    \A pos \in GridPositions, angle \in GridAngles, radius \in GridRadii :
      \A dir \in {BendDirectionUp, BendDirectionDown} :
        LET m == AddBendStepToCurrentJob(jobs, cur, pos, angle, radius, dir)
            r == AddBendStepToCurrentJobRefactored(jobs, cur, pos, angle, radius, dir)
        IN /\ (m.err = Nil) = (r.err = Nil)
           /\ m.step = r.step
           /\ m.jobs = r.jobs

(***************************************************************************)
(* C30: for a proposal that breaks one bound or several,                   *)
(* AddBendStepToCurrentJob reports one error, for the position before the  *)
(* radius and for the radius before the angle, and the check in            *)
(* handleAddBendStep refuses the proposal for the same bound: on the same  *)
(* sheet the handler and the controller agree on whether a proposal is     *)
(* refused and for which bound.                                            *)
(***************************************************************************)
C30_SamePrecedence ==
  HasCurrentSheet =>
    \A pos \in GridPositions, angle \in GridAngles, radius \in GridRadii :
      LET controller == AddBendStepOf(build, jobs, jcCurrentJob, pos, angle, radius,
                                      BendDirectionUp).err
          handler == HandlerRefusal(pos, angle, radius, CurrentSheet)
          first == IF pos <= 0 \/ pos >= CurrentSheet.OriginalLength THEN ErrPosition
                   ELSE IF radius < minBendRadius \/ radius > maxBendRadius THEN ErrRadius
                   ELSE IF angle < minBendAngle \/ angle > maxBendAngle THEN ErrAngle
                   ELSE Nil
      IN /\ controller = first
         /\ handler = controller

(***************************************************************************)
(* Claims about overlapping executions, checked under SpecExec.            *)
(***************************************************************************)
\* no execution is under way and at least one has run
AllExecutionsCompleted ==
  /\ \A g \in 1..MaxRuns : execs[g].pc \in {"idle", "done"}
  /\ \E g \in 1..MaxRuns : execs[g].pc = "done"

(***************************************************************************)
(* C31: once every started execution has completed, the parts-bent text    *)
(* shows the press brake's totalPartsBentSession, however the executions   *)
(* were interleaved.                                                       *)
(***************************************************************************)
C31_TextShowsFinalCount ==
  AllExecutionsCompleted => partsBentText = pressBrake.totalPartsBentSession

(***************************************************************************)
(* C33: the execute handler starts nothing for a job without steps, and    *)
(* leaves counter and sheet alone; and whenever an execution started from  *)
(* the UI completes successfully (ProcessJob returns after counting the    *)
(* part) the sheet is formed: its CurrentBends is not empty, whatever      *)
(* interleaves with the execution.                                         *)
(***************************************************************************)
C33_CompletedExecutionLeavesFormedSheet ==
  [][/\ (ExecuteBtnClick /\ Len(jobs[acCurrentJob].Steps) = 0) =>
          /\ execs' = execs
          /\ pressBrake' = pressBrake
          /\ jobs' = jobs
     /\ \A g \in 1..MaxRuns :
          ProcessJobCountWrite(g) =>
            /\ Len(execs[g].steps) >= 1
            /\ jobs'[acCurrentJob].Sheet.CurrentBends # <<>>
    ]_vars

(***************************************************************************)
(* The application with its tool selectors: the names come in any order,   *)
(* the user picks punches and dies, adds steps and executes the job.       *)
(***************************************************************************)
InitTooling ==
  /\ build \in {Monolith, Refactored}
  /\ jobs = [j \in JobIds |->
               IF j = "J1" THEN NewJob("DefaultJob-001", InitialSheet).job
               ELSE [Name |-> "Job-NoSheet", Sheet |-> NilSheet, Steps |-> <<>>]]
  /\ jcCurrentJob = "J1"
  /\ pressBrake = NewPressBrake(GetDefaultPunch, GetDefaultDie)
  /\ selectedMaterialIdx = 0
  /\ selectedDirectionIdx = 0
  /\ dialog = NoDialog
  /\ partsBentText = 0
  /\ execs = [g \in 1..MaxRuns |-> IdleExec]
  /\ ret = NoCall
  /\ retired = [j \in JobIds |-> {}]
  /\ \E pn \in MapOrders(toolPunches), dn \in MapOrders(toolDies) : InitSelectors(pn, dn)
  /\ InitStatus

\* a selector that moves to the next name and leaves the machine's punch alone
PunchSelectClick_IndexOnly ==
  /\ Len(punchNames) > 0
  /\ selectedPunchIdx' = (selectedPunchIdx + 1) % Len(punchNames)
  /\ UNCHANGED <<build, jobs, jcCurrentJob, pressBrake, selectedMaterialIdx,
                 selectedDirectionIdx, dialog, partsBentText, execs, ret, retired,
                 punchNames, dieNames, selectedDieIdx, statusVars>>

\* lines 942-951
PunchSelectClick ==
  /\ Len(punchNames) > 0
  /\ selectedPunchIdx' = (selectedPunchIdx + 1) % Len(punchNames)
  /\ pressBrake' = IF /\ selectedPunchIdx' < Len(punchNames)
                      /\ punchNames[selectedPunchIdx' + 1] \in toolPunches
                   THEN SetPunch(pressBrake, punchNames[selectedPunchIdx' + 1])
                   ELSE pressBrake
  /\ UNCHANGED <<build, jobs, jcCurrentJob, selectedMaterialIdx,
                 selectedDirectionIdx, dialog, partsBentText, execs, ret, retired,
                 punchNames, dieNames, selectedDieIdx, statusVars>>

\* lines 952-961
DieSelectClick ==
  /\ Len(dieNames) > 0
  /\ selectedDieIdx' = (selectedDieIdx + 1) % Len(dieNames)
  /\ pressBrake' = IF /\ selectedDieIdx' < Len(dieNames)
                      /\ dieNames[selectedDieIdx' + 1] \in toolDies
                   THEN SetDie(pressBrake, dieNames[selectedDieIdx' + 1])
                   ELSE pressBrake
  /\ UNCHANGED <<build, jobs, jcCurrentJob, selectedMaterialIdx,
                 selectedDirectionIdx, dialog, partsBentText, execs, ret, retired,
                 punchNames, dieNames, selectedPunchIdx, statusVars>>

\* the execute button, clicked when no execution is under way
ExecuteBtnClickWhenIdle ==
  /\ \A g \in 1..MaxRuns : execs[g].pc \in {"idle", "done"}
  /\ ExecuteBtnClick

NextTooling ==
  \/ PunchSelectClick
  \/ DieSelectClick
  \/ \E pos \in ExecPositions, angle \in ExecAngles, radius \in ExecRadii :
       AddBendBtnClick(pos, angle, radius)
  \/ ExecuteBtnClickWhenIdle
  \/ \E g \in 1..MaxRuns : GoroutineStep(g)

SpecTooling == InitTooling /\ [][NextTooling]_vars

(***************************************************************************)
(* C32: in every reachable state of the application the press brake has a  *)
(* punch and a die, both selector indices are inside their lists, and the  *)
(* punch and the die are the tools named by punchNames[selectedPunchIdx]   *)
(* and dieNames[selectedDieIdx]; so no execution started from the UI       *)
(* fails with 'tooling not set'.                                           *)
(***************************************************************************)
C32_ToolingMatchesSelectors ==
  /\ [](/\ pressBrake.currentPunch # Nil
        /\ pressBrake.currentDie # Nil
        /\ selectedPunchIdx >= 0 /\ selectedPunchIdx < Len(punchNames)
        /\ selectedDieIdx >= 0 /\ selectedDieIdx < Len(dieNames)
        /\ pressBrake.currentPunch = punchNames[selectedPunchIdx + 1]
        /\ pressBrake.currentDie = dieNames[selectedDieIdx + 1])
  /\ [][\A g \in 1..MaxRuns : ProcessJobEnter(g) => execs'[g].pc = "loop"]_vars

\* the default punch is listed last, the selector was clicked on to the second
\* name while an execution ran, and the execution has ended
C32_Witness ==
  /\ punchNames[3] = DefaultPunch
  /\ selectedPunchIdx = 1
  /\ pressBrake.currentPunch = punchNames[2]
  /\ selectedDieIdx = 0
  /\ pressBrake.currentDie # DefaultDie
  /\ \E g \in 1..MaxRuns : execs[g].pc = "done"
  /\ pressBrake.totalPartsBentSession = 1

(***************************************************************************)
(* The status line at work: the UI thread calls updateStatus from its      *)
(* handlers, the runtime fires the timer and runs its callback, and the    *)
(* goroutine of loop() turns redraw signals into window invalidations.     *)
(* The job stays as NewAppController made it, without steps, so the clear  *)
(* button reports 'No bend steps to clear.' and the execute button the     *)
(* error 'No bend steps to execute.'.  updateStatus exists in the          *)
(* monolithic program only.                                                *)
(***************************************************************************)
\* the timer callbacks in flight at once
MaxCallbacks == 2

\* the updateStatus calls made: <<msg, isError>>
StatusCalls ==
  {<<MsgNothingToClear, FALSE>>, <<MsgNothingToExecute, TRUE>>,
   <<MsgInvalidParameters, TRUE>>}

ErrorMessages == {c[1] : c \in {d \in StatusCalls : d[2]}}

InitStatusLine ==
  /\ build = Monolith
  /\ jobs = [j \in JobIds |->
               IF j = "J1" THEN NewJob("DefaultJob-001", InitialSheet).job
               ELSE [Name |-> "Job-NoSheet", Sheet |-> NilSheet, Steps |-> <<>>]]
  /\ jcCurrentJob = "J1"
  /\ pressBrake = NewPressBrake(GetDefaultPunch, GetDefaultDie)
  /\ selectedMaterialIdx = 0
  /\ selectedDirectionIdx = 0
  /\ dialog = NoDialog
  /\ partsBentText = 0
  /\ execs = [g \in 1..MaxRuns |-> IdleExec]
  /\ ret = NoCall
  /\ retired = [j \in JobIds |-> {}]
  /\ InitSelectors(listedPunchNames, listedDieNames)
  /\ InitStatus

\* lines 762-765: updateStatus(msg, isError) up to the lock
UpdateStatusEnter(msg, isError) ==
  /\ ~statusCall.pending
  /\ statusText' = msg
  /\ statusCall' = StatusCall(msg, isError)
  /\ UNCHANGED <<build, jobs, jcCurrentJob, pressBrake, selectedMaterialIdx,
                 selectedDirectionIdx, dialog, partsBentText, execs, ret, retired,
                 selectorVars, statusTimer, timerCallbacks, uiUpdate, redrawPc>>

\* lines 767-780: under the lock the timer is stopped and, for a status that
\* is no error, a new one is started; then the redraw is signalled
UpdateStatusLocked ==
  /\ statusCall.pending
  /\ ~LockHeld
  /\ statusTimer' = IF statusCall.isError THEN Timer(statusTimer.msg, FALSE)
                    ELSE Timer(statusCall.msg, TRUE)
  /\ uiUpdate' = signalUIUpdate(uiUpdate)
  /\ statusCall' = NoStatusCall
  /\ UNCHANGED <<build, jobs, jcCurrentJob, pressBrake, selectedMaterialIdx,
                 selectedDirectionIdx, dialog, partsBentText, execs, ret, retired,
                 selectorVars, statusText, timerCallbacks, redrawPc>>

\* line 770: the 7 seconds are over, the runtime starts the callback
TimerFire ==
  /\ statusTimer.armed
  /\ Cardinality(timerCallbacks) < MaxCallbacks
  /\ statusTimer' = Timer(statusTimer.msg, FALSE)
  /\ timerCallbacks' = timerCallbacks \cup {Callback(statusTimer.msg, "lock")}
  /\ UNCHANGED <<build, jobs, jcCurrentJob, pressBrake, selectedMaterialIdx,
                 selectedDirectionIdx, dialog, partsBentText, execs, ret, retired,
                 selectorVars, statusText, statusCall, uiUpdate, redrawPc>>

\* lines 771-773: the callback takes the lock and tests the status text
TimerCallbackCheck(c) ==
  /\ c \in timerCallbacks
  /\ c.pc = "lock"
  /\ ~LockHeld
  /\ timerCallbacks' =
       IF HasSuffix(statusText, c.msg) \/ statusText = StatusReady
       THEN (timerCallbacks \ {c}) \cup {Callback(c.msg, "clear")}
       ELSE timerCallbacks \ {c}
  /\ UNCHANGED <<build, jobs, jcCurrentJob, pressBrake, selectedMaterialIdx,
                 selectedDirectionIdx, dialog, partsBentText, execs, ret, retired,
                 selectorVars, statusText, statusCall, statusTimer, uiUpdate, redrawPc>>

\* lines 774-775 and the deferred unlock
TimerCallbackClear(c) ==
  /\ c \in timerCallbacks
  /\ c.pc = "clear"
  /\ statusText' = StatusReady
  /\ uiUpdate' = signalUIUpdate(uiUpdate)
  /\ timerCallbacks' = timerCallbacks \ {c}
  /\ UNCHANGED <<build, jobs, jcCurrentJob, pressBrake, selectedMaterialIdx,
                 selectedDirectionIdx, dialog, partsBentText, execs, ret, retired,
                 selectorVars, statusCall, statusTimer, redrawPc>>

\* line 614: the range receives a signal
RedrawReceive ==
  /\ redrawPc = "range"
  /\ uiUpdate > 0
  /\ uiUpdate' = uiUpdate - 1
  /\ redrawPc' = "invalidate"
  /\ UNCHANGED <<build, jobs, jcCurrentJob, pressBrake, selectedMaterialIdx,
                 selectedDirectionIdx, dialog, partsBentText, execs, ret, retired,
                 selectorVars, statusText, statusCall, statusTimer, timerCallbacks>>

\* line 615: ac.win.Invalidate()
RedrawInvalidate ==
  /\ redrawPc = "invalidate"
  /\ redrawPc' = "range"
  /\ UNCHANGED <<build, jobs, jcCurrentJob, pressBrake, selectedMaterialIdx,
                 selectedDirectionIdx, dialog, partsBentText, execs, ret, retired,
                 selectorVars, statusText, statusCall, statusTimer, timerCallbacks,
                 uiUpdate>>

NextStatus ==
  \/ \E s \in StatusCalls : UpdateStatusEnter(s[1], s[2])
  \/ UpdateStatusLocked
  \/ TimerFire
  \/ \E c \in timerCallbacks : TimerCallbackCheck(c)
  \/ \E c \in timerCallbacks : TimerCallbackClear(c)
  \/ RedrawReceive
  \/ RedrawInvalidate

SpecStatus == InitStatusLine /\ [][NextStatus]_vars

\* the goroutine of loop() is scheduled
FairRedraw == WF_vars(RedrawReceive) /\ WF_vars(RedrawInvalidate)

SpecStatusFair == SpecStatus /\ FairRedraw

(***************************************************************************)
(* C34: an error status set by updateStatus(msg, true) is never replaced   *)
(* by the auto-clear timer: the call leaves no timer running (none is      *)
(* started and the one running is stopped), a callback goes on to clear    *)
(* only when the text ends with its own message or is 'Status: Ready',     *)
(* and no callback writes 'Status: Ready' over an error text.              *)
(***************************************************************************)
C34_ErrorOutlivesTimer ==
  [][/\ (UpdateStatusLocked /\ statusCall.isError) =>
          ~statusTimer'.armed
     /\ \A c \in timerCallbacks :
          (TimerCallbackCheck(c) /\ Callback(c.msg, "clear") \in timerCallbacks') =>
            (HasSuffix(statusText, c.msg) \/ statusText = StatusReady)
     /\ \A c \in timerCallbacks :
          TimerCallbackClear(c) => statusText \notin ErrorMessages
    ]_vars

(***************************************************************************)
(* C35: AppController.currentJob and the JobController's current job       *)
(* always denote the same Job: NewAppController gives the one Job it makes *)
(* to both (lines 542 and 557) and no handler sets either again, so what   *)
(* a handler reads through one it changes through the other.               *)
(***************************************************************************)
C35_ControllersShareJob ==
  /\ GetCurrentJob(jcCurrentJob) = acCurrentJob
  /\ GetCurrentJob(jcCurrentJob) # Nil

\* the handlers have acted through both: steps added through the
\* JobController and the sheet rebuilt through AppController.currentJob
C35_Witness ==
  /\ GetCurrentJob(jcCurrentJob) = acCurrentJob
  /\ Len(jobs[GetCurrentJob(jcCurrentJob)].Steps) = MaxSteps
  /\ jobs[acCurrentJob].Sheet.OriginalLength # InitialLength

\* a step that calls signalUIUpdate
SignalSent == UpdateStatusLocked \/ \E c \in timerCallbacks : TimerCallbackClear(c)

(***************************************************************************)
(* C36: signalUIUpdate never blocks: whoever has reached it takes its step *)
(* whatever the channel holds.  uiUpdate never holds more than one pending *)
(* signal: a signal sent to the empty channel is buffered, one sent while  *)
(* a signal is pending is dropped.  With the goroutine of loop() scheduled,*)
(* a pending signal is always received and followed by a window            *)
(* invalidation, so at least one invalidation follows every burst.         *)
(***************************************************************************)
C36_SignalsCoalesce ==
  /\ [](uiUpdate \in 0..uiUpdateCapacity)
  /\ [](/\ (statusCall.pending /\ ~LockHeld) => ENABLED UpdateStatusLocked
        /\ \A c \in timerCallbacks : c.pc = "clear" => ENABLED TimerCallbackClear(c))
  /\ [][SignalSent => uiUpdate' = 1]_vars
  /\ (uiUpdate = 1) ~> (uiUpdate = 0 /\ redrawPc = "invalidate")
  /\ (redrawPc = "invalidate") ~> (redrawPc = "range")

\* a signal is pending while the one before it has been received and its
\* invalidation is still to come, after the timer callback has sent one
C36_Witness ==
  /\ uiUpdate = uiUpdateCapacity
  /\ redrawPc = "invalidate"
  /\ statusText = StatusReady
  /\ statusCall.pending

=============================================================================
